---- MODULE Spec2Model ----
(***************************************************************************)
(* The crawl-and-ingest pipeline of construct_data/robust_crawl_to_jsonl.py *)
(* as a state machine: the Crawler object (frontier, dedup index, counters, *)
(* page id), the three append-only output streams and stats.json on disk,   *)
(* the run loop cut at every point where a SIGINT handler can observe a     *)
(* different state, and successive runs over the same output directory.     *)
(***************************************************************************)
EXTENDS Integers, Sequences, FiniteSets, TLC

(***************************************************************************)
(* Bounds of the model.                                                     *)
(***************************************************************************)
\* number of process runs over the same output directory
MaxRuns == 2

\* length of the texts given to the chunker on its own
MaxTextLen == 6

(***************************************************************************)
(* Generic helpers.                                                         *)
(***************************************************************************)
Range(s) == {s[i] : i \in 1..Len(s)}

IsPrefix(p, s) == Len(p) <= Len(s) /\ SubSeq(s, 1, Len(p)) = p

Max(a, b) == IF a >= b THEN a ELSE b

\* s[-n:] of Python for n > 0
LastChars(s, n) == IF Len(s) <= n THEN s ELSE SubSeq(s, Len(s) - n + 1, Len(s))

\* s[:n] of Python for n >= 0
FirstChars(s, n) == IF Len(s) <= n THEN s ELSE SubSeq(s, 1, n)

(***************************************************************************)
(* URLs.  A URL is the result of urlparse: scheme, netloc, the path as its  *)
(* segments, whether the path ends with "/", the extension os.path.splitext *)
(* finds on the path, and whether a query or fragment is present.           *)
(***************************************************************************)
Url(scheme, netloc, path, slash, ext, qf) ==
    [scheme |-> scheme, netloc |-> netloc, path |-> path,
     slash |-> slash, ext |-> ext, qf |-> qf]

\* normalize_url's rejection marker: the empty string, urlparse("") of it
NoUrl == Url("", "", <<>>, FALSE, "", FALSE)

ALLOWED_SCHEMES == {"http", "https"}

HTML_EXTS == {".html", ".htm", ".md", ".txt", ".php", ".aspx", ""}

normalize_url(url) ==
    IF url.scheme \notin ALLOWED_SCHEMES
    THEN NoUrl
    ELSE [url EXCEPT !.qf = FALSE,
                     !.slash = IF url.ext = "" /\ ~url.slash THEN TRUE ELSE url.slash]

\* p.path.startswith(base_path), base_path being a directory path ending in "/"
PathStartsWith(url, base_path) ==
    /\ IsPrefix(base_path, url.path)
    /\ \/ Len(url.path) > Len(base_path)
       \/ (url.ext = "" /\ url.slash)

is_within_base(url, base_netloc, base_path) ==
    url.netloc = base_netloc /\ PathStartsWith(url, base_path)

\* urljoin(base_url, href) for an href that carries its own scheme
urljoin(base_url, href) == href

\* re.search of a literal word: the word occurs as a segment of the path
NoPattern == ""

re_search(pattern, url) == pattern \in Range(url.path)

(***************************************************************************)
(* Text.  A text is a sequence of one-character strings.                    *)
(***************************************************************************)
NL == "\n"

IsSpace(c) == c \in {" ", NL}

RECURSIVE LStrip(_)
LStrip(s) == IF s # <<>> /\ IsSpace(Head(s)) THEN LStrip(Tail(s)) ELSE s

RECURSIVE RStrip(_)
RStrip(s) ==
    IF s # <<>> /\ IsSpace(s[Len(s)]) THEN RStrip(SubSeq(s, 1, Len(s) - 1)) ELSE s

\* str.strip()
Strip(s) == RStrip(LStrip(s))

\* number of leading newlines of s
RECURSIVE LeadingNL(_)
LeadingNL(s) == IF s # <<>> /\ Head(s) = NL THEN 1 + LeadingNL(Tail(s)) ELSE 0

\* re.split(r"\n{2,}", text): the pieces between maximal runs of two or more
\* newlines; cur is the piece being read
RECURSIVE ReSplit(_, _)
ReSplit(s, cur) ==
    IF s = <<>> THEN <<cur>>
    ELSE IF LeadingNL(s) >= 2
         THEN <<cur>> \o ReSplit(SubSeq(s, LeadingNL(s) + 1, Len(s)), <<>>)
         ELSE ReSplit(Tail(s), Append(cur, Head(s)))

\* [p.strip() for p in pieces if p.strip()]
RECURSIVE StripNonEmpty(_)
StripNonEmpty(ps) ==
    IF ps = <<>> THEN <<>>
    ELSE IF Strip(Head(ps)) = <<>> THEN StripNonEmpty(Tail(ps))
         ELSE <<Strip(Head(ps))>> \o StripNonEmpty(Tail(ps))

\* the for-loop of chunk_text with every new buffer started from the paragraph
\* alone, without the tail of the flushed one
RECURSIVE PackParas_noseed(_, _, _, _, _)
PackParas_noseed(paras, chunks, buf, max_chars, overlap) ==
    IF paras = <<>>
    THEN IF buf # <<>> THEN Append(chunks, buf) ELSE chunks
    ELSE LET p == Head(paras) IN
         IF Len(buf) + Len(p) + 1 <= max_chars
         THEN PackParas_noseed(Tail(paras), chunks, Strip(buf \o <<NL>> \o p),
                               max_chars, overlap)
         ELSE PackParas_noseed(Tail(paras),
                               IF buf # <<>> THEN Append(chunks, buf) ELSE chunks,
                               p, max_chars, overlap)

\* the for-loop of chunk_text over the paragraphs, from (chunks, buf)
RECURSIVE PackParas(_, _, _, _, _)
PackParas(paras, chunks, buf, max_chars, overlap) ==
    IF paras = <<>>
    THEN IF buf # <<>> THEN Append(chunks, buf) ELSE chunks
    ELSE LET p == Head(paras) IN
         IF Len(buf) + Len(p) + 1 <= max_chars
         THEN PackParas(Tail(paras), chunks, Strip(buf \o <<NL>> \o p),
                        max_chars, overlap)
         ELSE PackParas(Tail(paras),
                        IF buf # <<>> THEN Append(chunks, buf) ELSE chunks,
                        IF overlap # 0 /\ Len(buf) > overlap
                        THEN Strip(LastChars(buf, overlap) \o <<NL>> \o p)
                        ELSE p,
                        max_chars, overlap)

chunk_text(text, max_chars, overlap) ==
    IF max_chars <= 0
    THEN IF text # <<>> THEN <<text>> ELSE <<>>
    ELSE LET paras == StripNonEmpty(ReSplit(text, <<>>))
             chunks == PackParas(paras, <<>>, <<>>, max_chars, overlap)
         IN IF chunks # <<>> THEN chunks
            ELSE IF Strip(text) = <<>> THEN <<>>
                 ELSE <<FirstChars(text, max_chars)>>

\* the passes of the for-loop of chunk_text through its else branch that flush
\* a buffer longer than the overlap: the 1-based position the flushed buffer
\* takes in chunks, the buffer, and the paragraph that did not fit; n is
\* len(chunks) before the pass
RECURSIVE PackFlushes(_, _, _, _, _)
PackFlushes(paras, n, buf, max_chars, overlap) ==
    IF paras = <<>> THEN <<>>
    ELSE LET p == Head(paras) IN
         IF Len(buf) + Len(p) + 1 <= max_chars
         THEN PackFlushes(Tail(paras), n, Strip(buf \o <<NL>> \o p),
                          max_chars, overlap)
         ELSE (IF buf # <<>> /\ overlap # 0 /\ Len(buf) > overlap
               THEN <<[i |-> n + 1, buf |-> buf, p |-> p]>>
               ELSE <<>>)
              \o PackFlushes(Tail(paras),
                             IF buf # <<>> THEN n + 1 ELSE n,
                             IF overlap # 0 /\ Len(buf) > overlap
                             THEN Strip(LastChars(buf, overlap) \o <<NL>> \o p)
                             ELSE p,
                             max_chars, overlap)

\* hash_text: SHA-1 of the UTF-8 bytes, taken as injective on the texts
hash_text(s) == <<"sha1", s>>

(***************************************************************************)
(* The site being crawled and the command line.                             *)
(***************************************************************************)
\* --base-url https://h/doc
BaseUrlArg == Url("https", "h", <<"doc">>, FALSE, "", FALSE)

\* the hrefs that occur on the site's pages, as urljoin resolves them
HrefA == Url("https", "h", <<"doc", "a">>, FALSE, "", FALSE)
HrefAq == Url("https", "h", <<"doc", "a">>, TRUE, "", TRUE)
HrefB == Url("https", "h", <<"doc", "b">>, FALSE, ".html", FALSE)
HrefHome == Url("https", "h", <<"doc">>, TRUE, "", TRUE)
HrefOff == Url("https", "h", <<"other">>, TRUE, "", FALSE)
HrefPng == Url("https", "h", <<"doc", "pic">>, FALSE, ".png", FALSE)
HrefMail == Url("mailto", "", <<"x">>, FALSE, "", FALSE)
HrefFtp == Url("ftp", "h", <<"doc", "c">>, FALSE, "", FALSE)

\* the normalized URLs of the pages the site serves
UBase == normalize_url(BaseUrlArg)
UA == normalize_url(HrefA)
UB == normalize_url(HrefB)

SiteUrls == {UBase, UA, UB}

\* the <a href> list of each page, in document order
SiteLinks(u) ==
    IF u = UBase THEN <<HrefA, HrefAq, HrefOff, HrefPng, HrefMail, HrefFtp, HrefB>>
    ELSE IF u = UA THEN <<HrefHome, HrefB, HrefB>>
    ELSE <<HrefA>>

\* the <loc> entries of the site's sitemap.xml
Sitemap == <<HrefB, HrefHome, HrefOff>>

\* the URLs robots.txt disallows
RobotsDisallowed == {UB}

\* the texts extract_text_and_title can return for a page
Texts ==
    { <<>>,
      <<"a">>,
      <<"a", NL, NL, "b", NL, NL, "a">> }

\* what a GET of a URL gives: a non-2xx status or transport error ("fail"), a
\* body whose extraction raises ("bad"), or a body with text and links ("ok")
Outcomes(u) ==
    {[kind |-> "fail", text |-> <<>>, links |-> <<>>],
     [kind |-> "bad", text |-> <<>>, links |-> SiteLinks(u)]}
    \cup {[kind |-> "ok", text |-> t, links |-> SiteLinks(u)] : t \in Texts}

Unknown == [kind |-> "unknown", text |-> <<>>, links |-> <<>>]

NoPage == [kind |-> "none", text |-> <<>>, links |-> <<>>]

\* the --max-pages values a run is started with: one that stops the crawl
\* before the frontier is exhausted, one that lets a two-page crawl finish
Budgets == {1, 2}

\* the command lines a run is started with
Configs ==
    [resume : BOOLEAN, max_pages : Budgets, use_sitemap : BOOLEAN,
     respect_robots : BOOLEAN, include_re : {NoPattern},
     exclude_re : {NoPattern, "b"}, chunk_size : {1}, chunk_overlap : {0}]

NoConfig ==
    [resume |-> FALSE, max_pages |-> 0, use_sitemap |-> FALSE,
     respect_robots |-> FALSE, include_re |-> NoPattern,
     exclude_re |-> NoPattern, chunk_size |-> 0, chunk_overlap |-> 0]

(***************************************************************************)
(* State.                                                                   *)
(***************************************************************************)
VARIABLES
    corpus_full,    \* corpus_full.jsonl: the sequence of its lines
    corpus_min,     \* corpus_min.jsonl: the sequence of its lines
    manifest,       \* manifest.csv: the sequence of its rows, headers included
    stats_json,     \* stats.json: <<>> while absent, else <<the counters>>
    site,           \* what each URL of the site answers, fixed once observed
    pc,             \* position of the process
    exit_code,      \* exit code of the last ended process, -1 before any
    cfg,            \* the arguments of Crawler.__init__
    visited,        \* Crawler.visited
    queue,          \* Crawler.queue
    page_id,        \* Crawler.page_id
    stats,          \* Crawler.stats
    chunk_hashes,   \* Crawler.chunk_hashes
    url,            \* run: url
    html,           \* run: html
    chunks,         \* write_records: chunks
    ci,             \* write_records: position in chunks (1-based)
    deduped,        \* write_records: deduped
    wr,             \* run: (total, deduped) as write_records returned them
    runs,           \* history: number of runs started
    prev,           \* history: exit code and --max-pages of the run before, and
                    \* the URLs it left in its queue without having visited them
    fetched,        \* history: the URLs passed to fetch in this run, in order
    preloaded,      \* history: the URLs __init__ loaded from the manifest
    start_len,      \* history: lengths of the three streams when the run began
    produced,       \* history: the hashes write_records computed in this run
    persisted,      \* history: pages, chunks and duplicates of the pages of this
                    \* run whose manifest row has been written
    stats_run,      \* history: the run that last wrote stats.json, 0 if none
    sleeps          \* history: the time.sleep(delay) calls of run in this run

disk == <<corpus_full, corpus_min, manifest, stats_json>>

crawler == <<cfg, visited, queue, page_id, stats, chunk_hashes>>

locals == <<url, html, chunks, ci, deduped, wr>>

history ==
    <<runs, prev, fetched, preloaded, start_len, produced, persisted, stats_run,
      sleeps>>

vars == <<disk, site, pc, exit_code, crawler, locals, history>>

NoRun == [exit_code |-> -1, max_pages |-> 0, pending |-> {}]

Persisted0 == [pages |-> 0, chunks |-> 0, dups |-> 0]

Stats0 ==
    [pages_fetched |-> 0, pages_skipped |-> 0, pages_failed |-> 0,
     chunks_written |-> 0, chunks_deduped |-> 0, queue_peek |-> 0]

\* the header row csv.DictWriter.writeheader writes, each cell the column name
HeaderUrlCell == Url("", "", <<"url">>, FALSE, "", FALSE)

HeaderRow == [id |-> <<"id">>, url |-> HeaderUrlCell]

\* csv.DictReader takes the first row as the field names and yields the others
read_existing_urls_from_manifest(rows) == {rows[i].url : i \in 2..Len(rows)}

base_url == normalize_url(BaseUrlArg)

base_netloc == base_url.netloc

base_path == base_url.path

\* the sitemap loop of seed_queue
RECURSIVE SeedsOf(_)
SeedsOf(locs) ==
    IF locs = <<>> THEN <<>>
    ELSE LET n == normalize_url(Head(locs)) IN
         IF n # NoUrl /\ is_within_base(n, base_netloc, base_path)
         THEN <<n>> \o SeedsOf(Tail(locs))
         ELSE SeedsOf(Tail(locs))

seed_queue(c) == <<base_url>> \o (IF c.use_sitemap THEN SeedsOf(Sitemap) ELSE <<>>)

can_fetch(c, u) == IF c.respect_robots THEN u \notin RobotsDisallowed ELSE TRUE

\* the tests of enqueue_links on one href of the page at page_url
LinkAccepted(c, vis, page_url, href) ==
    LET abs_url == normalize_url(urljoin(page_url, href)) IN
    /\ href.scheme \notin {"mailto", "javascript"}
    /\ abs_url # NoUrl
    /\ abs_url \notin vis
    /\ is_within_base(abs_url, base_netloc, base_path)
    /\ abs_url.ext \in HTML_EXTS
    /\ (c.include_re # NoPattern => re_search(c.include_re, abs_url))
    /\ (c.exclude_re # NoPattern => ~re_search(c.exclude_re, abs_url))

\* what enqueue_links appends to the queue
RECURSIVE enqueue_links(_, _, _, _)
enqueue_links(c, vis, page_url, links) ==
    IF links = <<>> THEN <<>>
    ELSE (IF LinkAccepted(c, vis, page_url, Head(links))
          THEN <<normalize_url(urljoin(page_url, Head(links)))>>
          ELSE <<>>) \o enqueue_links(c, vis, page_url, Tail(links))

\* the id of chunk i (0-based) of the page
ChunkId(pid, i, total) == IF total > 1 THEN <<"page", pid, "c", i>> ELSE <<"page", pid>>

PageRowId(pid) == <<"page", pid>>

full_obj(pid, u, i, total, ck) ==
    [id |-> ChunkId(pid, i, total), url |-> u, chunk_index |-> i,
     chunk_count |-> total, contents |-> ck, hash |-> hash_text(ck)]

min_obj(pid, i, total, ck) == [id |-> ChunkId(pid, i, total), contents |-> ck]

(***************************************************************************)
(* Initial state: no process has run and the output directory is empty.     *)
(***************************************************************************)
Init ==
    /\ corpus_full = <<>>
    /\ corpus_min = <<>>
    /\ manifest = <<>>
    /\ stats_json = <<>>
    /\ site = [u \in SiteUrls |-> Unknown]
    /\ pc = "idle"
    /\ exit_code = -1
    /\ cfg = NoConfig
    /\ visited = {}
    /\ queue = <<>>
    /\ page_id = 0
    /\ stats = Stats0
    /\ chunk_hashes = {}
    /\ url = NoUrl
    /\ html = NoPage
    /\ chunks = <<>>
    /\ ci = 0
    /\ deduped = 0
    /\ wr = <<0, 0>>
    /\ runs = 0
    /\ prev = NoRun
    /\ fetched = <<>>
    /\ preloaded = {}
    /\ start_len = <<0, 0, 0>>
    /\ produced = <<>>
    /\ persisted = Persisted0
    /\ stats_run = 0
    /\ sleeps = 0

(***************************************************************************)
(* Crawler.__init__: a new process starts over the output directory.        *)
(***************************************************************************)
Ended == pc \in {"idle", "done"}

\* a later run repeats the command line of the first one, except for --resume
\* and --max-pages
Rerun(c) ==
    runs > 0 =>
        /\ c.use_sitemap = cfg.use_sitemap
        /\ c.respect_robots = cfg.respect_robots
        /\ c.include_re = cfg.include_re
        /\ c.exclude_re = cfg.exclude_re
        /\ c.chunk_size = cfg.chunk_size
        /\ c.chunk_overlap = cfg.chunk_overlap

Start ==
    /\ Ended
    /\ runs < MaxRuns
    /\ \E c \in Configs :
         LET loads == c.resume /\ manifest # <<>>
             seen_urls == IF loads THEN read_existing_urls_from_manifest(manifest)
                          ELSE {}
         IN /\ Rerun(c)
            /\ cfg' = c
            /\ visited' = seen_urls
            /\ preloaded' = seen_urls
            /\ page_id' = IF loads THEN Len(corpus_full) ELSE 0
            /\ manifest' = IF ~c.resume \/ manifest = <<>>
                           THEN Append(manifest, HeaderRow)
                           ELSE manifest
            /\ queue' = seed_queue(c)
    /\ stats' = Stats0
    /\ chunk_hashes' = {}
    /\ pc' = "loop"
    /\ prev' = [exit_code |-> exit_code, max_pages |-> cfg.max_pages,
                pending |-> Range(queue) \ visited]
    /\ exit_code' = -1
    /\ runs' = runs + 1
    /\ fetched' = <<>>
    /\ produced' = <<>>
    /\ persisted' = Persisted0
    /\ start_len' = <<Len(corpus_full), Len(corpus_min), Len(manifest)>>
    /\ sleeps' = 0
    /\ UNCHANGED <<corpus_full, corpus_min, stats_json, site, locals, stats_run>>

(***************************************************************************)
(* Crawler.run: the head of the while loop.                                 *)
(***************************************************************************)
\* the loop head without its test of visited
InVisited_never(u, vis) == FALSE

\* url in self.visited
InVisited(u, vis) == u \in vis

\* the while condition with <= for <
LoopCondition_inclusive == queue # <<>> /\ Cardinality(visited) <= cfg.max_pages

LoopCondition == queue # <<>> /\ Cardinality(visited) < cfg.max_pages

\* the while condition is false: leave the loop
LoopExit ==
    /\ pc = "loop"
    /\ ~LoopCondition
    /\ pc' = "finish"
    /\ UNCHANGED <<disk, site, exit_code, crawler, locals, history>>

\* popleft, url in visited: continue
PopVisited ==
    /\ pc = "loop"
    /\ LoopCondition
    /\ InVisited(Head(queue), visited)
    /\ queue' = Tail(queue)
    /\ UNCHANGED <<disk, site, pc, exit_code, cfg, visited, page_id, stats,
                   chunk_hashes, locals, history>>

\* popleft, robots.txt disallows the url: count it as skipped, continue
PopBlocked ==
    /\ pc = "loop"
    /\ LoopCondition
    /\ ~InVisited(Head(queue), visited)
    /\ ~can_fetch(cfg, Head(queue))
    /\ queue' = Tail(queue)
    /\ stats' = [stats EXCEPT !.pages_skipped = @ + 1]
    /\ UNCHANGED <<disk, site, pc, exit_code, cfg, visited, page_id,
                   chunk_hashes, locals, history>>

\* popleft, mark the url visited and call fetch on it
PopVisit ==
    /\ pc = "loop"
    /\ LoopCondition
    /\ ~InVisited(Head(queue), visited)
    /\ can_fetch(cfg, Head(queue))
    /\ queue' = Tail(queue)
    /\ visited' = visited \cup {Head(queue)}
    /\ stats' = [stats EXCEPT !.queue_peek = Max(@, Len(queue'))]
    /\ url' = Head(queue)
    /\ fetched' = Append(fetched, Head(queue))
    /\ pc' = "fetch"
    /\ UNCHANGED <<disk, site, exit_code, cfg, page_id, chunk_hashes,
                   html, chunks, ci, deduped, wr,
                   runs, prev, preloaded, start_len, produced, persisted, stats_run,
                   sleeps>>

(***************************************************************************)
(* Crawler.fetch returns; the site answers a URL the same way every time.   *)
(***************************************************************************)
Answer(o) ==
    /\ o \in Outcomes(url)
    /\ site[url] \in {Unknown, o}
    /\ site' = [site EXCEPT ![url] = o]

\* html is None: count the failure, sleep, continue
FetchFail ==
    /\ pc = "fetch"
    /\ \E o \in Outcomes(url) :
         /\ Answer(o)
         /\ o.kind = "fail"
    /\ stats' = [stats EXCEPT !.pages_failed = @ + 1]
    /\ sleeps' = sleeps + 1
    /\ url' = NoUrl
    /\ pc' = "loop"
    /\ UNCHANGED <<disk, exit_code, cfg, visited, queue, page_id, chunk_hashes,
                   html, chunks, ci, deduped, wr,
                   runs, prev, fetched, preloaded, start_len, produced, persisted,
                   stats_run>>

\* a 2xx body came back
FetchOk ==
    /\ pc = "fetch"
    /\ \E o \in Outcomes(url) :
         /\ Answer(o)
         /\ o.kind # "fail"
         /\ html' = o
    /\ pc' = "extract"
    /\ UNCHANGED <<disk, exit_code, crawler, url, chunks, ci, deduped, wr, history>>

\* extract_text_and_title raises: the exception leaves run, main logs it and
\* exits with code 1
ExtractRaises ==
    /\ pc = "extract"
    /\ html.kind = "bad"
    /\ pc' = "done"
    /\ exit_code' = 1
    /\ UNCHANGED <<disk, site, crawler, locals, history>>

\* extract_text_and_title returns; write_records is entered and chunks the text
ExtractOk ==
    /\ pc = "extract"
    /\ html.kind = "ok"
    /\ chunks' = IF html.text # <<>>
                 THEN chunk_text(html.text, cfg.chunk_size, cfg.chunk_overlap)
                 ELSE <<>>
    /\ ci' = 1
    /\ deduped' = 0
    /\ pc' = IF chunks' = <<>> THEN "returned" ELSE "chunk"
    /\ wr' = <<0, 0>>
    /\ UNCHANGED <<disk, site, exit_code, crawler, url, html, history>>

(***************************************************************************)
(* Crawler.write_records: the loop over the chunks, the manifest row.       *)
(***************************************************************************)
\* write_records without its test of chunk_hashes
HashSeen_never(h, hashes) == FALSE

\* h in self.chunk_hashes
HashSeen(h, hashes) == h \in hashes

\* the hash of the chunk is in chunk_hashes: count it, continue
ChunkDuplicate ==
    /\ pc = "chunk"
    /\ ci <= Len(chunks)
    /\ HashSeen(hash_text(chunks[ci]), chunk_hashes)
    /\ deduped' = deduped + 1
    /\ ci' = ci + 1
    /\ produced' = Append(produced, hash_text(chunks[ci]))
    /\ UNCHANGED <<disk, site, pc, exit_code, crawler, url, html, chunks, wr,
                   runs, prev, fetched, preloaded, start_len, persisted, stats_run,
                   sleeps>>

\* the hash is new: add it to chunk_hashes
ChunkAdmit ==
    /\ pc = "chunk"
    /\ ci <= Len(chunks)
    /\ ~HashSeen(hash_text(chunks[ci]), chunk_hashes)
    /\ chunk_hashes' = chunk_hashes \cup {hash_text(chunks[ci])}
    /\ produced' = Append(produced, hash_text(chunks[ci]))
    /\ pc' = "write_full"
    /\ UNCHANGED <<disk, site, exit_code, cfg, visited, queue, page_id, stats,
                   locals, runs, prev, fetched, preloaded, start_len, persisted,
                   stats_run, sleeps>>

\* fw_full.write
WriteFull ==
    /\ pc = "write_full"
    /\ corpus_full' = Append(corpus_full,
                             full_obj(page_id, url, ci - 1, Len(chunks), chunks[ci]))
    /\ pc' = "write_min"
    /\ UNCHANGED <<corpus_min, manifest, stats_json, site, exit_code, crawler,
                   locals, history>>

\* fw_min.write, next chunk
WriteMin ==
    /\ pc = "write_min"
    /\ corpus_min' = Append(corpus_min,
                            min_obj(page_id, ci - 1, Len(chunks), chunks[ci]))
    /\ ci' = ci + 1
    /\ pc' = "chunk"
    /\ UNCHANGED <<corpus_full, manifest, stats_json, site, exit_code, crawler,
                   url, html, chunks, deduped, wr, history>>

\* after the last chunk: the manifest row, the three flushes, return
WriteManifest ==
    /\ pc = "chunk"
    /\ ci > Len(chunks)
    /\ manifest' = Append(manifest, [id |-> PageRowId(page_id), url |-> url])
    /\ wr' = <<Len(chunks), deduped>>
    /\ persisted' = [pages |-> persisted.pages + 1,
                     chunks |-> persisted.chunks + Len(chunks),
                     dups |-> persisted.dups + deduped]
    /\ pc' = "returned"
    /\ UNCHANGED <<corpus_full, corpus_min, stats_json, site, exit_code, crawler,
                   url, html, chunks, ci, deduped,
                   runs, prev, fetched, preloaded, start_len, produced, stats_run,
                   sleeps>>

(***************************************************************************)
(* Crawler.run: the counters after write_records, the links, the page id.   *)
(***************************************************************************)
CountPage ==
    /\ pc = "returned"
    /\ stats' = [stats EXCEPT !.pages_fetched = @ + 1]
    /\ pc' = "count_written"
    /\ UNCHANGED <<disk, site, exit_code, cfg, visited, queue, page_id,
                   chunk_hashes, locals, history>>

\* chunks_written counting only the chunks that were retained
CountWritten_retained ==
    /\ pc = "count_written"
    /\ stats' = [stats EXCEPT !.chunks_written = @ + wr[1] - wr[2]]
    /\ pc' = "count_deduped"
    /\ UNCHANGED <<disk, site, exit_code, cfg, visited, queue, page_id,
                   chunk_hashes, locals, history>>

\* self.stats.chunks_written += total
CountWritten ==
    /\ pc = "count_written"
    /\ stats' = [stats EXCEPT !.chunks_written = @ + wr[1]]
    /\ pc' = "count_deduped"
    /\ UNCHANGED <<disk, site, exit_code, cfg, visited, queue, page_id,
                   chunk_hashes, locals, history>>

CountDeduped ==
    /\ pc = "count_deduped"
    /\ stats' = [stats EXCEPT !.chunks_deduped = @ + wr[2]]
    /\ pc' = "enqueue"
    /\ UNCHANGED <<disk, site, exit_code, cfg, visited, queue, page_id,
                   chunk_hashes, locals, history>>

\* enqueue_links, page_id += 1, the heartbeat, the sleep: back to the loop head
EnqueueLinks ==
    /\ pc = "enqueue"
    /\ queue' = queue \o enqueue_links(cfg, visited, url, html.links)
    /\ page_id' = page_id + 1
    /\ url' = NoUrl
    /\ html' = NoPage
    /\ chunks' = <<>>
    /\ ci' = 0
    /\ deduped' = 0
    /\ wr' = <<0, 0>>
    /\ sleeps' = sleeps + 1
    /\ pc' = "loop"
    /\ UNCHANGED <<disk, site, exit_code, cfg, visited, stats, chunk_hashes,
                   runs, prev, fetched, preloaded, start_len, produced, persisted,
                   stats_run>>

(***************************************************************************)
(* Crawler.run after the loop, and the SIGINT handler.                      *)
(***************************************************************************)
\* write_stats
WriteStats ==
    /\ pc = "finish"
    /\ stats_json' = <<stats>>
    /\ stats_run' = runs
    /\ pc' = "close"
    /\ UNCHANGED <<corpus_full, corpus_min, manifest, site, exit_code, crawler,
                   locals, runs, prev, fetched, preloaded, start_len, produced,
                   persisted, sleeps>>

\* close_writers, the log line, return from run and main: exit code 0
CloseWriters ==
    /\ pc = "close"
    /\ pc' = "done"
    /\ exit_code' = 0
    /\ UNCHANGED <<disk, site, crawler, locals, history>>

\* the handler is installed when __init__ returns and runs wherever the signal
\* finds the process
Running == pc \notin {"idle", "done"}

\* _handle_sigint: close_writers, write_stats, sys.exit(130)
handle_sigint ==
    /\ Running
    /\ stats_json' = <<stats>>
    /\ stats_run' = runs
    /\ pc' = "done"
    /\ exit_code' = 130
    /\ UNCHANGED <<corpus_full, corpus_min, manifest, site, crawler, locals,
                   runs, prev, fetched, preloaded, start_len, produced, persisted,
                   sleeps>>

Next ==
    \/ Start
    \/ LoopExit
    \/ PopVisited
    \/ PopBlocked
    \/ PopVisit
    \/ FetchFail
    \/ FetchOk
    \/ ExtractRaises
    \/ ExtractOk
    \/ ChunkDuplicate
    \/ ChunkAdmit
    \/ WriteFull
    \/ WriteMin
    \/ WriteManifest
    \/ CountPage
    \/ CountWritten
    \/ CountDeduped
    \/ EnqueueLinks
    \/ WriteStats
    \/ CloseWriters
    \/ handle_sigint

Spec == Init /\ [][Next]_vars

(***************************************************************************)
(* Runs that no signal interrupts.  A started process keeps executing: it   *)
(* is the only thread and every step of run returns (fetch has a timeout,   *)
(* the sleep is finite).  Whether another run is started is left open.      *)
(***************************************************************************)
Step ==
    \/ LoopExit
    \/ PopVisited
    \/ PopBlocked
    \/ PopVisit
    \/ FetchFail
    \/ FetchOk
    \/ ExtractRaises
    \/ ExtractOk
    \/ ChunkDuplicate
    \/ ChunkAdmit
    \/ WriteFull
    \/ WriteMin
    \/ WriteManifest
    \/ CountPage
    \/ CountWritten
    \/ CountDeduped
    \/ EnqueueLinks
    \/ WriteStats
    \/ CloseWriters

NextUninterrupted == Start \/ Step

FairSpec == Init /\ [][NextUninterrupted]_vars /\ WF_vars(Step)

(***************************************************************************)
(* The chunker on its own: write_records is entered for the base page of a  *)
(* first run, with --chunk-size and --chunk-overlap positive and the page's *)
(* text any text extract_text_and_title can return, up to MaxTextLen.       *)
(***************************************************************************)
Alphabet == {"a", "b", " ", NL}

\* what the end of extract_text_and_title leaves: runs of blanks are one blank,
\* runs of newlines at most two, no whitespace at either end
IsExtractedText(t) ==
    /\ Strip(t) = t
    /\ \A i \in 1..(Len(t) - 1) : ~(t[i] = " " /\ t[i + 1] = " ")
    /\ \A i \in 1..(Len(t) - 2) : ~(t[i] = NL /\ t[i + 1] = NL /\ t[i + 2] = NL)

ChunkTexts ==
    {t \in UNION {[1..n -> Alphabet] : n \in 0..MaxTextLen} : IsExtractedText(t)}

\* --chunk-size and --chunk-overlap
ChunkSizes == {2, 3, 4}

ChunkOverlaps == {1, 2}

ChunkConfigs ==
    [resume : {FALSE}, max_pages : {1}, use_sitemap : {FALSE},
     respect_robots : {FALSE}, include_re : {NoPattern},
     exclude_re : {NoPattern}, chunk_size : ChunkSizes,
     chunk_overlap : ChunkOverlaps]

\* the first run has fetched the base page and is about to extract its text
ChunkInit ==
    /\ corpus_full = <<>>
    /\ corpus_min = <<>>
    /\ manifest = <<HeaderRow>>
    /\ stats_json = <<>>
    /\ \E t \in ChunkTexts :
         /\ html = [kind |-> "ok", text |-> t, links |-> SiteLinks(UBase)]
         /\ site = [u \in SiteUrls |-> IF u = UBase THEN html ELSE Unknown]
    /\ pc = "extract"
    /\ exit_code = -1
    /\ cfg \in ChunkConfigs
    /\ visited = {UBase}
    /\ queue = <<>>
    /\ page_id = 0
    /\ stats = Stats0
    /\ chunk_hashes = {}
    /\ url = UBase
    /\ chunks = <<>>
    /\ ci = 0
    /\ deduped = 0
    /\ wr = <<0, 0>>
    /\ runs = 1
    /\ prev = NoRun
    /\ fetched = <<UBase>>
    /\ preloaded = {}
    /\ start_len = <<0, 0, 0>>
    /\ produced = <<>>
    /\ persisted = Persisted0
    /\ stats_run = 0
    /\ sleeps = 0

ChunkNext == ExtractOk

ChunkSpec == ChunkInit /\ [][ChunkNext]_vars

(***************************************************************************)
(* Vocabulary of the properties.                                            *)
(***************************************************************************)
\* the lines this run has appended to each stream
RunFull == SubSeq(corpus_full, start_len[1] + 1, Len(corpus_full))

RunMin == SubSeq(corpus_min, start_len[2] + 1, Len(corpus_min))

RunManifest == SubSeq(manifest, start_len[3] + 1, Len(manifest))

\* the lines that were in each stream when this run began
OldFull == SubSeq(corpus_full, 1, start_len[1])

OldMin == SubSeq(corpus_min, 1, start_len[2])

OldManifest == SubSeq(manifest, 1, start_len[3])

\* the url column of the manifest as it was when this run began
OldManifestUrls == {OldManifest[i].url : i \in 2..Len(OldManifest)}

\* the number of positions of seq whose element satisfies Test
CountIn(seq, Test(_)) == Cardinality({i \in 1..Len(seq) : Test(seq[i])})

NoRepeats(seq) == \A i, j \in 1..Len(seq) : i # j => seq[i] # seq[j]

\* the process is between two iterations of the loop, or has left it
AtBoundary == pc \in {"loop", "finish", "close"} \/ (pc = "done" /\ exit_code = 0)

(***************************************************************************)
(* C1.  Within one run no URL is passed to fetch more than once, and a run  *)
(* started with --resume never fetches a URL that the url column of the     *)
(* manifest listed when the run began.                                      *)
(***************************************************************************)
C1_FetchedAtMostOnce ==
    /\ NoRepeats(fetched)
    /\ cfg.resume => Range(fetched) \cap OldManifestUrls = {}

\* a resumed run has fetched a page while a URL of the old manifest waits in
\* its queue
C1_Witness ==
    /\ cfg.resume
    /\ Len(fetched) >= 1
    /\ \E k \in 1..Len(queue) : queue[k] \in OldManifestUrls

(***************************************************************************)
(* C2.  As claimed: in every state the size of visited is at most           *)
(* max_pages, runs started with --resume included.                          *)
(***************************************************************************)
C2_VisitedWithinBudget == Running => Cardinality(visited) <= cfg.max_pages

(***************************************************************************)
(* C2, amended.  The size of visited is at most the larger of max_pages and *)
(* the number of URLs loaded from the manifest at startup: the loop adds no *)
(* URL once the size of visited has reached max_pages.                      *)
(***************************************************************************)
C2_VisitedWithinBudgetOrPreload ==
    Running => Cardinality(visited) <= Max(cfg.max_pages, Cardinality(preloaded))

\* a resumed run that loaded URLs from the manifest has visited a further URL
\* and filled its budget
C2_Witness ==
    /\ Running
    /\ preloaded # {}
    /\ visited # preloaded
    /\ Cardinality(visited) = cfg.max_pages

(***************************************************************************)
(* C3.  The queue never holds the same URL twice at the same time.          *)
(***************************************************************************)
C3_QueueHasNoDuplicates == NoRepeats(queue)

(***************************************************************************)
(* C4.  A URL that is in visited is never added to the queue, neither by    *)
(* link discovery nor by the seeding that follows the load of the manifest. *)
(***************************************************************************)
\* the URLs a step puts into the queue: all of a newly seeded queue, else the
\* appended ones
AddedToQueue ==
    IF Ended /\ ~Ended'
    THEN Range(queue')
    ELSE {queue'[k] : k \in (Len(queue) + 1)..Len(queue')}

C4_VisitedNeverEnqueued == [][AddedToQueue \cap visited' = {}]_vars

(***************************************************************************)
(* C5.  Dedup invariant: a hash that write_records computed two or more     *)
(* times in the run has exactly one record among the lines the run appended *)
(* to corpus_full.jsonl and exactly one among those it appended to          *)
(* corpus_min.jsonl; the dedup index holds exactly the hashes computed, so  *)
(* a repeated hash leaves it as it was; and chunks_deduped has grown by the *)
(* number of discarded chunks: between iterations it equals that number,    *)
(* inside one it lacks only the count write_records holds for the page.     *)
(***************************************************************************)
Times(h) == CountIn(produced, LAMBDA x : x = h)

Discarded == Len(produced) - Cardinality(Range(produced))

\* the duplicates of the page in hand that run has not yet added to the counter
PendingDups ==
    IF pc \in {"chunk", "write_full", "write_min"} THEN deduped
    ELSE IF pc \in {"returned", "count_written", "count_deduped"} THEN wr[2]
    ELSE 0

AfterCompletedRun ==
    /\ cfg.resume
    /\ prev.exit_code = 0
    /\ prev.max_pages = cfg.max_pages

C6_ResumeAfterCompletionIsIdle ==
    (Running /\ AfterCompletedRun) =>
        /\ stats.pages_fetched = 0
        /\ RunFull = <<>>
        /\ RunMin = <<>>
        /\ RunManifest = <<>>

(***************************************************************************)
(* C7.  Page ids are never reused: the page rows a run appends carry        *)
(* strictly increasing page numbers, and the page id of a run that resumed  *)
(* from the manifest is greater than every page number already present in   *)
(* manifest.csv and corpus_full.jsonl.                                      *)
(***************************************************************************)
\* the N of "page-N" and of "page-N-cI"
PageNo(id) == id[2]

\* the page numbers in the streams as they were when the run began
OldPageNos ==
    {PageNo(OldManifest[i].id) : i \in {k \in 1..Len(OldManifest) : OldManifest[k] # HeaderRow}}
    \cup {PageNo(OldFull[i].id) : i \in 1..Len(OldFull)}

Resumed == cfg.resume /\ OldManifest # <<>>

C7_PageIdsNeverReused ==
    Running =>
        /\ \A i, j \in 1..Len(RunManifest) :
             (i < j /\ RunManifest[i] # HeaderRow /\ RunManifest[j] # HeaderRow)
                 => PageNo(RunManifest[i].id) < PageNo(RunManifest[j].id)
        /\ \A i \in 1..Len(RunManifest) :
             RunManifest[i] # HeaderRow => PageNo(RunManifest[i].id) < page_id + 1
        /\ Resumed => \A n \in OldPageNos : n < page_id

(***************************************************************************)
(* C8.  After an interrupt and a run started with --resume, no output is    *)
(* duplicated: the resumed run appends no manifest row for a URL that has   *)
(* one, and appends to corpus_full.jsonl and corpus_min.jsonl no chunk of a *)
(* page that the streams already held for that page.                        *)
(***************************************************************************)
AfterInterrupt == cfg.resume /\ prev.exit_code = 130

\* the url of the corpus_full line that carries the id, in the given lines
UrlsOfId(lines, id) == {lines[i].url : i \in {k \in 1..Len(lines) : lines[k].id = id}}

C8_NoDuplicateOutputAfterResume ==
    AfterInterrupt =>
        /\ \A i \in 1..Len(RunManifest) : RunManifest[i].url \notin OldManifestUrls
        /\ \A i \in 1..Len(RunFull) : \A j \in 1..Len(OldFull) :
             ~(RunFull[i].url = OldFull[j].url /\ RunFull[i].contents = OldFull[j].contents)
        /\ \A i \in 1..Len(RunMin) : \A j \in 1..Len(OldMin) :
             ~(/\ RunMin[i].contents = OldMin[j].contents
               /\ UrlsOfId(RunFull, RunMin[i].id) \cap UrlsOfId(OldFull, OldMin[j].id) # {})

(***************************************************************************)
(* C9.  When the process exits because of an interrupt, every hash that was *)
(* admitted to the dedup index has its record among the lines the run       *)
(* appended to corpus_full.jsonl and among those it appended to             *)
(* corpus_min.jsonl: the interrupt never falls inside the writing of a page.*)
(***************************************************************************)
Interrupted == pc = "done" /\ exit_code = 130

C9_AdmittedChunksArePersisted ==
    Interrupted =>
        \A h \in chunk_hashes :
            /\ \E i \in 1..Len(RunFull) : RunFull[i].hash = h
            /\ \E i \in 1..Len(RunMin) : hash_text(RunMin[i].contents) = h

(***************************************************************************)
(* C10.  After an interrupt the process has exit code 130 and the           *)
(* stats.json it wrote describes exactly the pages whose records and        *)
(* manifest row were persisted: pages_fetched counts each of them,          *)
(* chunks_written is the number of their chunks and chunks_deduped the      *)
(* number of their discarded chunks.  (A page without text has no row and   *)
(* no chunk, and is left aside.)                                            *)
(***************************************************************************)
C10_StatsCountCompletedPages ==
    Interrupted =>
        /\ stats_run = runs
        /\ stats_json = <<stats>>
        /\ persisted.pages <= stats_json[1].pages_fetched
        /\ stats_json[1].chunks_written = persisted.chunks
        /\ stats_json[1].chunks_deduped = persisted.dups

(***************************************************************************)
(* C11.  Every run that has started crawling ends by writing stats.json,    *)
(* whatever the way it ends: normal completion, interrupt, or an exception  *)
(* raised inside the crawl loop.                                            *)
(***************************************************************************)
C11_EveryRunWritesStats == pc = "done" => stats_run = runs

(***************************************************************************)
(* C12.  A page-level error never ends the crawl: the step that meets a     *)
(* failed fetch or an extraction that raises counts the URL in pages_failed *)
(* and goes back to the loop head with the queue as it was, and no later    *)
(* step of the run appends a URL that failed to the queue.                  *)
(***************************************************************************)
\* the step, other than the signal handler, in which the page error is met
PageErrorMet ==
    /\ exit_code' # 130
    /\ \/ pc = "fetch" /\ site'[url].kind = "fail"
       \/ pc = "extract" /\ html.kind = "bad"

\* the URLs this run fetched whose page failed
FailedUrls == {u \in Range(fetched) : site[u].kind \in {"fail", "bad"}}

C12_PageErrorsAreContained ==
    [][/\ PageErrorMet =>
            /\ pc' = "loop"
            /\ stats'.pages_failed = stats.pages_failed + 1
            /\ queue' = queue
       /\ ~Ended => AddedToQueue \cap FailedUrls = {}]_vars

(***************************************************************************)
(* C13.  Every URL rejected for scope or policy reasons is counted in       *)
(* pages_skipped: link discovery adds to the counter one for each link of   *)
(* the page that is outside the base scope, has a disallowed extension or   *)
(* is excluded by the patterns, and the loop head adds one for a URL that   *)
(* robots.txt disallows.                                                    *)
(***************************************************************************)
\* the href resolves to a URL that the scope, extension or pattern check rejects
ScopeRejected(c, page_url, href) ==
    LET abs_url == normalize_url(urljoin(page_url, href)) IN
    /\ abs_url # NoUrl
    /\ \/ ~is_within_base(abs_url, base_netloc, base_path)
       \/ abs_url.ext \notin HTML_EXTS
       \/ (c.include_re # NoPattern /\ ~re_search(c.include_re, abs_url))
       \/ (c.exclude_re # NoPattern /\ re_search(c.exclude_re, abs_url))

C13_RejectedUrlsAreSkipped ==
    [][/\ (pc = "enqueue" /\ pc' = "loop") =>
            stats'.pages_skipped = stats.pages_skipped
                + CountIn(html.links, LAMBDA h : ScopeRejected(cfg, url, h))
       /\ (/\ pc = "loop" /\ pc' = "loop" /\ queue # <<>> /\ queue' = Tail(queue)
           /\ Head(queue) \notin visited /\ ~can_fetch(cfg, Head(queue))) =>
            stats'.pages_skipped = stats.pages_skipped + 1]_vars

(***************************************************************************)
(* C14.  Every URL passed to fetch has passed the four eligibility checks:  *)
(* host and base path scope, extension allow-list, include and exclude      *)
(* patterns, and robots policy when enabled; whether it entered the queue   *)
(* as the base URL, as a sitemap seed or as a link of a page.               *)
(***************************************************************************)
Eligible(c, u) ==
    /\ is_within_base(u, base_netloc, base_path)
    /\ u.ext \in HTML_EXTS
    /\ (c.include_re # NoPattern => re_search(c.include_re, u))
    /\ (c.exclude_re # NoPattern => ~re_search(c.exclude_re, u))
    /\ can_fetch(c, u)

C14_FetchedUrlsAreEligible == \A i \in 1..Len(fetched) : Eligible(cfg, fetched[i])

(***************************************************************************)
(* C15.  Between iterations, every page this run fetched successfully has   *)
(* exactly one row among the rows the run appended to manifest.csv, a page  *)
(* with empty text and a page whose chunks were all duplicates included;    *)
(* and in no state has a page more than one such row.                       *)
(***************************************************************************)
RowsOf(u) == CountIn(RunManifest, LAMBDA r : r.url = u)

C15_OneManifestRowPerFetchedPage ==
    /\ \A u \in Range(fetched) : RowsOf(u) <= 1
    /\ AtBoundary => \A u \in Range(fetched) : site[u].kind = "ok" => RowsOf(u) = 1

(***************************************************************************)
(* C16.  Between iterations, chunks_written is the number of chunks the     *)
(* chunker produced for the pages fetched in this run, discarded duplicates *)
(* included, and the number of lines the run appended to corpus_full.jsonl  *)
(* is chunks_written minus chunks_deduped.                                  *)
(***************************************************************************)
C16_ChunksWrittenCountsAttempts ==
    AtBoundary =>
        /\ stats.chunks_written = Len(produced)
        /\ Len(RunFull) = stats.chunks_written - stats.chunks_deduped

\* between two iterations, after two pages: a chunk was discarded as the
\* duplicate of a chunk of the other page, and two lines were appended
C16_Witness ==
    /\ pc = "loop"
    /\ stats.pages_fetched = 2
    /\ stats.chunks_deduped >= 1
    /\ Len(RunFull) >= 2
    /\ stats.chunks_written > Len(RunFull)

(***************************************************************************)
(* C17.  manifest.csv never holds a second header row: a run started, with  *)
(* or without --resume, on a manifest that is not empty appends no header.  *)
(***************************************************************************)
C17_SingleManifestHeader == CountIn(manifest, LAMBDA r : r = HeaderRow) <= 1

(***************************************************************************)
(* C18.  The inter-request delay is slept once for every URL the loop has   *)
(* popped and processed: at the loop head the number of sleeps of the run   *)
(* is the number of pages fetched, failed and skipped as robots-blocked.    *)
(***************************************************************************)
C18_DelayAfterEveryProcessedUrl ==
    pc = "loop" =>
        sleeps = stats.pages_fetched + stats.pages_failed + stats.pages_skipped

(***************************************************************************)
(* C19.  As claimed, for chunk_size > 0 and chunk_overlap > 0: whenever a   *)
(* buffer longer than the overlap is flushed as chunk i because the next    *)
(* paragraph does not fit, chunk i+1 begins with exactly the last           *)
(* chunk_overlap characters of chunk i, joined to the paragraph that did    *)
(* not fit.                                                                 *)
(***************************************************************************)
\* the flushes of chunk_text on the page's text, once write_records has chunked it
Flushed ==
    IF pc = "extract" \/ cfg.chunk_size <= 0 \/ cfg.chunk_overlap <= 0 THEN <<>>
    ELSE PackFlushes(StripNonEmpty(ReSplit(html.text, <<>>)), 0, <<>>,
                     cfg.chunk_size, cfg.chunk_overlap)

C19_NextChunkBeginsWithOverlap ==
    \A k \in 1..Len(Flushed) :
        LET f == Flushed[k] IN
        /\ f.i + 1 <= Len(chunks)
        /\ chunks[f.i] = f.buf
        /\ IsPrefix(LastChars(chunks[f.i], cfg.chunk_overlap) \o <<NL>> \o f.p,
                    chunks[f.i + 1])

(***************************************************************************)
(* C19, amended.  Chunk i+1 begins with the last chunk_overlap characters   *)
(* of chunk i without their leading whitespace, then a newline, then the    *)
(* paragraph that did not fit.                                              *)
(***************************************************************************)
C19_NextChunkBeginsWithStrippedOverlap ==
    \A k \in 1..Len(Flushed) :
        LET f == Flushed[k] IN
        /\ f.i + 1 <= Len(chunks)
        /\ chunks[f.i] = f.buf
        /\ IsPrefix(LStrip(LastChars(chunks[f.i], cfg.chunk_overlap)) \o <<NL>> \o f.p,
                    chunks[f.i + 1])

\* a buffer was flushed whose last chunk_overlap characters begin with
\* whitespace, and the chunk after it is there
C19_Witness ==
    \E k \in 1..Len(Flushed) :
        /\ IsSpace(LastChars(Flushed[k].buf, cfg.chunk_overlap)[1])
        /\ Flushed[k].i + 1 <= Len(chunks)
        /\ Len(chunks[Flushed[k].i + 1]) > Len(Flushed[k].p)

(***************************************************************************)
(* C20.  With no interrupt, a run that has entered the crawl loop           *)
(* eventually ends in normal completion: it leaves the loop only when the   *)
(* queue is empty or the page budget is reached, and then writes stats.json *)
(* and closes the writers, exiting with code 0.                             *)
(***************************************************************************)
Completed == pc = "done" /\ exit_code = 0 /\ stats_run = runs

C20_CrawlTerminatesCompleted ==
    /\ [](pc \in {"finish", "close"} =>
            (queue = <<>> \/ Cardinality(visited) >= cfg.max_pages))
    /\ (pc = "loop") ~> Completed

(***************************************************************************)
(* C21.  A run started with --resume after an interrupted run, on the same  *)
(* site and itself not interrupted, recovers the frontier the interrupt     *)
(* left pending: when it completes without having reached its page budget,  *)
(* every URL that waited unvisited in the queue of the interrupted run and  *)
(* that robots.txt allows has been fetched.                                 *)
(***************************************************************************)
C21_PendingFrontierRecovered ==
    (/\ AfterInterrupt
     /\ pc = "done" /\ exit_code = 0
     /\ Cardinality(visited) < cfg.max_pages) =>
        \A u \in prev.pending : can_fetch(cfg, u) => u \in Range(fetched)

(***************************************************************************)
(* C22.  corpus_full.jsonl and corpus_min.jsonl stay in lockstep: whenever  *)
(* the process has exited, by normal completion or by an interrupt at any   *)
(* point, the lines the run appended to the two streams correspond one to   *)
(* one, in the same order, with the same id and the same contents.          *)
(***************************************************************************)
C22_StreamsInLockstep ==
    pc = "done" =>
        /\ Len(RunFull) = Len(RunMin)
        /\ \A i \in 1..Len(RunFull) :
             i <= Len(RunMin) =>
                 /\ RunFull[i].id = RunMin[i].id
                 /\ RunFull[i].contents = RunMin[i].contents

====
